---- MODULE Spec2Model ----
(***************************************************************************)
(* Model of the web scraping report generator (index.js): configuration    *)
(* loading, the sequential page fetches, report synthesis with its local   *)
(* fallback, persistence of report.html and rendering to report.png.       *)
(*                                                                         *)
(* Text is modelled as a sequence of one-character strings.  The literal   *)
(* "TARGET_URLS:" is carried as one token because the pattern of           *)
(* loadTargetURLs only ever matches it as a whole.                         *)
(***************************************************************************)
EXTENDS Integers, Sequences, FiniteSets, TLC

\* ------------------------------------------------------------------ bounds
MaxLines == 3
MaxEnvLen == 3
MaxClock == 3
MaxCalls == 2
MaxData == 1

\* --------------------------------------------------------------- constants
None == "none"
NL == "\n"
HeaderTok == "TARGET_URLS:"
DefaultURL == <<"D">>

\* ---------------------------------------------------- JavaScript strings
\* \s of the regular expressions and the white space String.trim removes
IsSpace(c) == c \in {" ", NL}

RECURSIVE TrimStart(_)
TrimStart(s) ==
  IF s # <<>> /\ IsSpace(Head(s)) THEN TrimStart(Tail(s)) ELSE s

RECURSIVE TrimEnd(_)
TrimEnd(s) ==
  IF s # <<>> /\ IsSpace(s[Len(s)]) THEN TrimEnd(SubSeq(s, 1, Len(s) - 1)) ELSE s

\* String.prototype.trim
Trim(s) == TrimEnd(TrimStart(s))

\* String.prototype.split(sep) for a one-character separator
RECURSIVE SplitFrom(_, _, _)
SplitFrom(s, sep, cur) ==
  IF s = <<>> THEN <<cur>>
  ELSE IF Head(s) = sep THEN <<cur>> \o SplitFrom(Tail(s), sep, <<>>)
  ELSE SplitFrom(Tail(s), sep, Append(cur, Head(s)))

Split(s, sep) == SplitFrom(s, sep, <<>>)

\* line.trim().startsWith('-')
StartsWithDash(line) == LET t == Trim(line) IN t # <<>> /\ Head(t) = "-"

\* lines.filter(line => line.trim().startsWith('-'))
RECURSIVE FilterDashLines(_)
FilterDashLines(xs) ==
  IF xs = <<>> THEN <<>>
  ELSE IF StartsWithDash(Head(xs)) THEN <<Head(xs)>> \o FilterDashLines(Tail(xs))
  ELSE FilterDashLines(Tail(xs))

\* line.replace(/^-\s*/, '').trim()
StripBullet(line) ==
  Trim(IF line # <<>> /\ Head(line) = "-" THEN TrimStart(Tail(line)) ELSE line)

\* --------------------------------------------- the pattern of loadTargetURLs
\* one iteration of (?:- .*\n) at position p: the position of its closing
\* newline, or 0 when the iteration does not match there ('.' never matches
\* a newline, so the greedy .* stops at the end of the line)
BulletLineEnd(s, p) ==
  IF p + 1 <= Len(s) /\ s[p] = "-" /\ s[p + 1] = " "
     /\ \E q \in (p + 2)..Len(s) : s[q] = NL
  THEN CHOOSE q \in (p + 2)..Len(s) :
         s[q] = NL /\ \A r \in (p + 2)..(q - 1) : s[r] # NL
  ELSE 0

\* greedy (?:- .*\n)+ from position p: the position of the last character
\* matched, or 0 when not even one iteration matches
RECURSIVE BulletsEnd(_, _)
BulletsEnd(s, p) ==
  LET e == BulletLineEnd(s, p) IN
  IF e = 0 THEN 0
  ELSE LET more == BulletsEnd(s, e + 1) IN IF more = 0 THEN e ELSE more

\* the pattern tried at start position i with \s* taking k characters:
\* TARGET_URLS: \s{k} \n (group)
MatchesWith(s, i, k) ==
  /\ i <= Len(s) /\ s[i] = HeaderTok
  /\ i + k + 1 <= Len(s)
  /\ \A j \in (i + 1)..(i + k) : IsSpace(s[j])
  /\ s[i + k + 1] = NL
  /\ BulletsEnd(s, i + k + 2) # 0

MatchesAt(s, i) == \E k \in 0..Len(s) : MatchesWith(s, i, k)

\* capture group 1 of the match at i; \s* is greedy, so the largest k wins
GroupAt(s, i) ==
  LET k == CHOOSE k \in 0..Len(s) :
             MatchesWith(s, i, k) /\ \A m \in (k + 1)..Len(s) : ~MatchesWith(s, i, m)
  IN SubSeq(s, i + k + 2, BulletsEnd(s, i + k + 2))

\* systemPrompt.match(urlPattern): the leftmost match; found is FALSE for the
\* null result
UrlPatternMatch(s) ==
  IF \E i \in 1..Len(s) : MatchesAt(s, i)
  THEN [found |-> TRUE,
        group |-> GroupAt(s, CHOOSE i \in 1..Len(s) :
                    MatchesAt(s, i) /\ \A j \in 1..(i - 1) : ~MatchesAt(s, j))]
  ELSE [found |-> FALSE, group |-> <<>>]

\* match[1].split('\n').filter(...).map(...)
BulletEntries(group) ==
  LET kept == FilterDashLines(Split(group, NL))
  IN [n \in 1..Len(kept) |-> StripBullet(kept[n])]

\* process.env.TARGET_URLS.split(',').map(url => url.trim())
EnvEntries(e) ==
  LET parts == Split(e, ",") IN [n \in 1..Len(parts) |-> Trim(parts[n])]

\* process.env.TARGET_URLS: unset, or set to a string
EnvUnset == [defined |-> FALSE, value |-> <<>>]
EnvValue(s) == [defined |-> TRUE, value |-> s]

\* if (process.env.TARGET_URLS): undefined and the empty string are falsy
EnvTruthy(e) == e.defined /\ e.value # <<>>

\* the value loadTargetURLs resolves to, for the environment value e and the
\* text of systemprompt.md
TargetURLs(e, prompt) ==
  IF EnvTruthy(e) THEN EnvEntries(e.value)
  ELSE LET match == UrlPatternMatch(prompt) IN
       IF match.found THEN BulletEntries(match.group) ELSE <<DefaultURL>>

\* ------------------------------------------------------------- snapshots
\* bodyText.substring(0, 5000)
BodyCap == 5000
Substring(s, n) == SubSeq(s, 1, IF Len(s) < n THEN Len(s) ELSE n)

\* window.location.href after navigating to url: the url itself, or the
\* address a redirect led to
Href(url, redirected) == IF redirected THEN <<"redirect:">> \o url ELSE url

\* what page.evaluate finds in the loaded document
Pages ==
  { [title |-> <<"VIX">>, body |-> <<"b", "o", "d", "y">>, price |-> <<<<"18.5">>>>,
     weather |-> <<>>, redirected |-> FALSE],
    [title |-> <<"Tenki">>, body |-> <<>>, price |-> <<>>,
     weather |-> <<<<"sunny">>, <<"12C">>>>, redirected |-> TRUE] }

\* the object page.evaluate returns; price and weather are sequences holding
\* the field when the selector matched, structuredData only gets matched keys
PageData(url, page) ==
  [title |-> page.title,
   bodyText |-> Substring(page.body, BodyCap),
   structuredData |-> [price |-> page.price, weather |-> page.weather],
   url |-> Href(url, page.redirected)]

\* the object the catch block of scrapeURL returns
ErrorSnapshot(url, msg) ==
  [url |-> url, error |-> msg, title |-> <<"Error">>,
   bodyText |-> <<"Failed to scrape: ">> \o msg]

IsErrorSnapshot(snap) == "error" \in DOMAIN snap

\* error.message of the failures the browser, the API and the file system raise
ErrMsgs == {<<"timeout">>, <<"crashed">>}

\* scrapedData.unshift(data): the newest Snapshot goes first
PushSnapshotMut(data, snap) == <<snap>> \o data

\* scrapedData.push(data)
PushSnapshot(data, snap) == Append(data, snap)

\* a close that is never issued
CloseBrowserMut(open, b) == open

\* browser.close() on the set of open browser instances
CloseBrowser(open, b) == open \ {b}

\* ------------------------------------------------------------ synthesizer
Quote(s) == <<"\"">> \o s \o <<"\"">>

\* JSON.stringify of an array of strings
RECURSIVE StringifyStrings(_)
StringifyStrings(xs) ==
  IF xs = <<>> THEN <<>>
  ELSE Quote(Head(xs)) \o (IF Len(xs) > 1 THEN <<",">> ELSE <<>>)
       \o StringifyStrings(Tail(xs))

\* JSON.stringify of one Snapshot: keys in insertion order
StringifySnapshot(snap) ==
  IF IsErrorSnapshot(snap)
  THEN <<"{", "url:">> \o Quote(snap.url) \o <<",", "error:">> \o Quote(snap.error)
       \o <<",", "title:">> \o Quote(snap.title)
       \o <<",", "bodyText:">> \o Quote(snap.bodyText) \o <<"}">>
  ELSE <<"{", "title:">> \o Quote(snap.title)
       \o <<",", "bodyText:">> \o Quote(snap.bodyText)
       \o <<",", "structuredData:", "{">>
       \o (IF snap.structuredData.price # <<>>
           THEN <<"price:">> \o Quote(snap.structuredData.price[1]) ELSE <<>>)
       \o (IF snap.structuredData.price # <<>> /\ snap.structuredData.weather # <<>>
           THEN <<",">> ELSE <<>>)
       \o (IF snap.structuredData.weather # <<>>
           THEN <<"weather:", "[">> \o StringifyStrings(snap.structuredData.weather)
                \o <<"]">>
           ELSE <<>>)
       \o <<"}", ",", "url:">> \o Quote(snap.url) \o <<"}">>

\* JSON.stringify(scrapedData, null, 2)
RECURSIVE StringifyItems(_)
StringifyItems(data) ==
  IF data = <<>> THEN <<>>
  ELSE StringifySnapshot(Head(data))
       \o (IF Len(data) > 1 THEN <<",">> ELSE <<>>) \o StringifyItems(Tail(data))

Stringify(data) == <<"[">> \o StringifyItems(data) \o <<"]">>

\* new Date().toLocaleString('ja-JP') at clock value t
FormatDate(t) == <<"date", ToString(t)>>

\* a fallback document that ends with a second "generated at" time stamp
FallbackHTMLMut(data, msg, t) ==
  <<"<html>", "<h1>", "Scraping Report - ">> \o FormatDate(t) \o <<"</h1>">>
  \o <<"<div class=error>", "<p>">> \o msg \o <<"</p>", "</div>">>
  \o <<"<pre>">> \o Stringify(data) \o <<"</pre>">> \o FormatDate(t) \o <<"</html>">>

\* the fallback document of the catch block of generateReport
FallbackHTML(data, msg, t) ==
  <<"<html>", "<h1>", "Scraping Report - ">> \o FormatDate(t) \o <<"</h1>">>
  \o <<"<div class=error>", "<p>">> \o msg \o <<"</p>", "</div>">>
  \o <<"<pre>">> \o Stringify(data) \o <<"</pre>", "</html>">>

\* JavaScript values a report can be: a string, or null/undefined
JSString(s) == [type |-> "string", text |-> s]
JSNull == [type |-> "null", text |-> <<>>]

\* what openai.chat.completions.create can do: resolve with a completion
\* whose choices[0].message.content is a string, resolve with one whose
\* content is null or missing, resolve with one without choices, or reject
ApiOutcomes ==
  { [kind |-> "content", text |-> <<"<html>", "AI report", "</html>">>],
    [kind |-> "nullContent", text |-> <<>>],
    [kind |-> "noChoices", text |-> <<"Cannot read properties of undefined">>] }
  \cup { [kind |-> "rejected", text |-> m] : m \in ErrMsgs }

\* the value generateReport returns for an API outcome, at clock value t
GenerateReport(data, outcome, t) ==
  CASE outcome.kind = "content" -> JSString(outcome.text)
    [] outcome.kind = "nullContent" -> JSNull
    [] OTHER -> JSString(FallbackHTML(data, outcome.text, t))

\* ------------------------------------------------------------------ files
NoFile == [exists |-> FALSE, text |-> <<>>]
File(s) == [exists |-> TRUE, text |-> s]

\* a write that is skipped
WriteReportMut(d, html) == d

\* fs.writeFile(htmlPath, reportHTML) on the output directory
WriteReport(d, html) == [d EXCEPT !.html = File(html)]

\* page.screenshot({path}) of the page showing html
WriteImage(d, html) == [d EXCEPT !.png = File(<<"PNG of">> \o html)]

\* a catch block that only logs, without process.exit(1)
ExitCodeForMut(caught) == 0

\* the exit code of the process: process.exit(1) in the catch block of main,
\* 0 for a run that returns from main
ExitCodeFor(caught) == IF caught THEN 1 ELSE 0

Running == -1

\* ------------------------------------------------------------------ state
VARIABLES
  env,          \* process.env.TARGET_URLS
  promptFile,   \* systemprompt.md on disk
  disk,         \* report.html and report.png in the output directory
  now,          \* the clock new Date() reads
  pc,           \* the statement main, scrapeURL or htmlToPNG is at
  systemPrompt, \* main: systemPrompt
  urls,         \* main: urls
  idx,          \* main: position of the for-of loop in urls
  scrapedData,  \* main: scrapedData
  reportHTML,   \* main: reportHTML
  browser,      \* scrapeURL / htmlToPNG: browser (0 before the launch)
  pending,      \* scrapeURL / htmlToPNG: completion waiting for the finally block
  browsers,     \* browser instances that are open
  launched,     \* number of browser instances launched so far
  thrown,       \* exception that reached the catch block of main
  exitCode,     \* exit code of the process, Running until it ends
  reports       \* documents returned by direct calls of generateReport

vars == <<env, promptFile, disk, now, pc, systemPrompt, urls, idx, scrapedData,
          reportHTML, browser, pending, browsers, launched, thrown, exitCode,
          reports>>

NoError == [fn |-> None, step |-> None, msg |-> <<>>]
Error(fn, step, msg) == [fn |-> fn, step |-> step, msg |-> msg]

NoPending == [kind |-> None]
Return(v) == [kind |-> "return", value |-> v]
Throw(m) == [kind |-> "throw", value |-> m]

\* ----------------------------------------------------------- initial states
MaxTargets == 2

\* a TARGET_URLS value listing n targets, with a blank after each comma
RECURSIVE CommaList(_)
CommaList(n) ==
  IF n <= 1 THEN <<"a">>
  ELSE CommaList(n - 1) \o <<",", " ">> \o (IF n % 2 = 0 THEN <<"b">> ELSE <<"a">>)

Unreadable == [readable |-> FALSE, text |-> <<>>]
Readable(s) == [readable |-> TRUE, text |-> s]

Locals ==
  /\ now = 0
  /\ pc = "loadPrompt"
  /\ systemPrompt = <<>>
  /\ urls = <<>>
  /\ idx = 1
  /\ scrapedData = <<>>
  /\ reportHTML = JSNull
  /\ browser = 0
  /\ pending = NoPending
  /\ browsers = {}
  /\ launched = 0
  /\ thrown = NoError
  /\ exitCode = Running
  /\ reports = <<>>

Init ==
  /\ env \in {EnvUnset} \cup {EnvValue(CommaList(n)) : n \in 1..MaxTargets}
  /\ promptFile \in
       { Unreadable,
         Readable(<<"t", NL>>),
         Readable(<<HeaderTok, NL, "-", " ", "x", NL, "-", " ", "y", NL>>) }
  /\ disk \in { [html |-> NoFile, png |-> NoFile],
                [html |-> File(<<"stale">>), png |-> File(<<"stale">>)] }
  /\ Locals

\* ------------------------------------------------------------------- main
\* main, line 234: loadSystemPrompt reads the file or rethrows the read error
LoadSystemPrompt ==
  /\ pc = "loadPrompt"
  /\ IF promptFile.readable
     THEN /\ systemPrompt' = promptFile.text
          /\ pc' = "loadURLs"
          /\ UNCHANGED thrown
     ELSE /\ thrown' = Error("loadSystemPrompt", "readFile", <<"ENOENT">>)
          /\ pc' = "catch"
          /\ UNCHANGED systemPrompt
  /\ UNCHANGED <<env, promptFile, disk, now, urls, idx, scrapedData, reportHTML,
                 browser, pending, browsers, launched, exitCode, reports>>

\* main, line 235: loadTargetURLs; it reads the prompt file again unless the
\* environment names the targets
LoadTargetURLs ==
  /\ pc = "loadURLs"
  /\ IF EnvTruthy(env) \/ promptFile.readable
     THEN /\ urls' = TargetURLs(env, promptFile.text)
          /\ idx' = 1
          /\ pc' = "loop"
          /\ UNCHANGED thrown
     ELSE /\ thrown' = Error("loadTargetURLs", "readFile", <<"ENOENT">>)
          /\ pc' = "catch"
          /\ UNCHANGED <<urls, idx>>
  /\ UNCHANGED <<env, promptFile, disk, now, systemPrompt, scrapedData, reportHTML,
                 browser, pending, browsers, launched, exitCode, reports>>

\* ---------------------------------------------------------------- scrapeURL
\* chromium.launch, called for the next url of the loop; outside the try
ScrapeLaunch ==
  /\ pc = "loop" /\ idx <= Len(urls)
  /\ \/ /\ launched' = launched + 1
        /\ browser' = launched + 1
        /\ browsers' = browsers \cup {launched + 1}
        /\ pc' = "s_context"
        /\ UNCHANGED thrown
     \/ \E m \in ErrMsgs :
        /\ thrown' = Error("scrapeURL", "launch", m)
        /\ browser' = 0
        /\ pc' = "catch"
        /\ UNCHANGED <<launched, browsers>>
  /\ pending' = NoPending
  /\ UNCHANGED <<env, promptFile, disk, now, systemPrompt, urls, idx, scrapedData,
                 reportHTML, exitCode, reports>>

\* a step of scrapeURL before its try block: a failure leaves the function
\* at once, through neither catch nor finally
ScrapeSetup(at, step, next) ==
  /\ pc = at
  /\ \/ pc' = next /\ UNCHANGED thrown
     \/ \E m \in ErrMsgs :
        thrown' = Error("scrapeURL", step, m) /\ pc' = "catch"
  /\ UNCHANGED <<env, promptFile, disk, now, systemPrompt, urls, idx, scrapedData,
                 reportHTML, browser, pending, browsers, launched, exitCode, reports>>

\* browser.newContext
ScrapeNewContext == ScrapeSetup("s_context", "newContext", "s_page")

\* context.newPage
ScrapeNewPage == ScrapeSetup("s_page", "newPage", "s_goto")

\* a step inside the try block that yields nothing: a failure goes to the
\* catch block, which returns the error Snapshot once finally has run
ScrapeTry(at, next) ==
  /\ pc = at
  /\ \/ pc' = next /\ UNCHANGED pending
     \/ \E m \in ErrMsgs :
        pending' = Return(ErrorSnapshot(urls[idx], m)) /\ pc' = "s_finally"
  /\ UNCHANGED <<env, promptFile, disk, now, systemPrompt, urls, idx, scrapedData,
                 reportHTML, browser, browsers, launched, thrown, exitCode, reports>>

\* page.goto
ScrapeGoto == ScrapeTry("s_goto", "s_wait")

\* page.waitForTimeout(2000)
ScrapeWait == ScrapeTry("s_wait", "s_evaluate")

\* page.evaluate and return pageData
ScrapeEvaluate ==
  /\ pc = "s_evaluate"
  /\ \/ \E page \in Pages : pending' = Return(PageData(urls[idx], page))
     \/ \E m \in ErrMsgs : pending' = Return(ErrorSnapshot(urls[idx], m))
  /\ pc' = "s_finally"
  /\ UNCHANGED <<env, promptFile, disk, now, systemPrompt, urls, idx, scrapedData,
                 reportHTML, browser, browsers, launched, thrown, exitCode, reports>>

\* finally { await browser.close() }: a close that fails replaces the pending
\* return by its own error, and may or may not have ended the browser
ScrapeFinally ==
  /\ pc = "s_finally"
  /\ \/ /\ browsers' = CloseBrowser(browsers, browser)
        /\ pc' = "push"
        /\ UNCHANGED <<thrown, pending>>
     \/ \E m \in ErrMsgs :
        /\ thrown' = Error("scrapeURL", "close", m)
        /\ browsers' \in {browsers, CloseBrowser(browsers, browser)}
        /\ pending' = NoPending
        /\ pc' = "catch"
  /\ UNCHANGED <<env, promptFile, disk, now, systemPrompt, urls, idx, scrapedData,
                 reportHTML, browser, launched, exitCode, reports>>

\* main, lines 242-243: the value scrapeURL returned is appended
Push ==
  /\ pc = "push"
  /\ scrapedData' = PushSnapshot(scrapedData, pending.value)
  /\ idx' = idx + 1
  /\ pending' = NoPending
  /\ pc' = "loop"
  /\ UNCHANGED <<env, promptFile, disk, now, systemPrompt, urls, reportHTML,
                 browser, browsers, launched, thrown, exitCode, reports>>

\* ----------------------------------------------------------- generateReport
\* main, line 248, once the loop is over: generateReport never throws, the
\* catch block turns every failure of the API call into the fallback document
Generate ==
  /\ pc = "loop" /\ idx > Len(urls)
  /\ \E outcome \in ApiOutcomes : \E t \in now..MaxClock :
       /\ now' = t
       /\ reportHTML' = GenerateReport(scrapedData, outcome, t)
  /\ pc' = "write"
  /\ UNCHANGED <<env, promptFile, disk, systemPrompt, urls, idx, scrapedData,
                 browser, pending, browsers, launched, thrown, exitCode, reports>>

\* main, line 252: fs.writeFile rejects data that is not a string, and can
\* fail on the file system
WriteHTML ==
  /\ pc = "write"
  /\ IF reportHTML.type # "string"
     THEN /\ thrown' = Error("writeFile", "ERR_INVALID_ARG_TYPE", <<"data must be a string">>)
          /\ pc' = "catch"
          /\ UNCHANGED disk
     ELSE \/ /\ disk' = WriteReport(disk, reportHTML.text)
             /\ pc' = "render"
             /\ UNCHANGED thrown
          \/ /\ thrown' = Error("writeFile", "io", <<"EACCES">>)
             /\ pc' = "catch"
             /\ UNCHANGED disk
  /\ UNCHANGED <<env, promptFile, now, systemPrompt, urls, idx, scrapedData,
                 reportHTML, browser, pending, browsers, launched, exitCode, reports>>

\* ---------------------------------------------------------------- htmlToPNG
\* chromium.launch of htmlToPNG(reportHTML, pngPath); outside the try
RenderLaunch ==
  /\ pc = "render"
  /\ \/ /\ launched' = launched + 1
        /\ browser' = launched + 1
        /\ browsers' = browsers \cup {launched + 1}
        /\ pc' = "h_context"
        /\ UNCHANGED thrown
     \/ \E m \in ErrMsgs :
        /\ thrown' = Error("htmlToPNG", "launch", m)
        /\ browser' = 0
        /\ pc' = "catch"
        /\ UNCHANGED <<launched, browsers>>
  /\ pending' = NoPending
  /\ UNCHANGED <<env, promptFile, disk, now, systemPrompt, urls, idx, scrapedData,
                 reportHTML, exitCode, reports>>

\* a step of htmlToPNG before its try block
RenderSetup(at, step, next) ==
  /\ pc = at
  /\ \/ pc' = next /\ UNCHANGED thrown
     \/ \E m \in ErrMsgs :
        thrown' = Error("htmlToPNG", step, m) /\ pc' = "catch"
  /\ UNCHANGED <<env, promptFile, disk, now, systemPrompt, urls, idx, scrapedData,
                 reportHTML, browser, pending, browsers, launched, exitCode, reports>>

\* browser.newContext
RenderNewContext == RenderSetup("h_context", "newContext", "h_page")

\* context.newPage
RenderNewPage == RenderSetup("h_page", "newPage", "h_setContent")

\* a step inside the try block: the catch block rethrows after finally
RenderTry(at, next) ==
  /\ pc = at
  /\ \/ pc' = next /\ UNCHANGED pending
     \/ \E m \in ErrMsgs : pending' = Throw(m) /\ pc' = "h_finally"
  /\ UNCHANGED <<env, promptFile, disk, now, systemPrompt, urls, idx, scrapedData,
                 reportHTML, browser, browsers, launched, thrown, exitCode, reports>>

\* page.setContent
RenderSetContent == RenderTry("h_setContent", "h_wait")

\* page.waitForTimeout(3000)
RenderWait == RenderTry("h_wait", "h_screenshot")

\* page.screenshot
RenderScreenshot ==
  /\ pc = "h_screenshot"
  /\ \/ /\ disk' = WriteImage(disk, reportHTML.text)
        /\ pending' = Return(<<>>)
     \/ \E m \in ErrMsgs : pending' = Throw(m) /\ UNCHANGED disk
  /\ pc' = "h_finally"
  /\ UNCHANGED <<env, promptFile, now, systemPrompt, urls, idx, scrapedData,
                 reportHTML, browser, browsers, launched, thrown, exitCode, reports>>

\* finally { await browser.close() } of htmlToPNG, then the pending
\* completion: return to main, or the rethrown error
RenderFinally ==
  /\ pc = "h_finally"
  /\ \/ /\ browsers' = CloseBrowser(browsers, browser)
        /\ IF pending.kind = "throw"
           THEN thrown' = Error("htmlToPNG", "try", pending.value) /\ pc' = "catch"
           ELSE pc' = "complete" /\ UNCHANGED thrown
     \/ \E m \in ErrMsgs :
        /\ thrown' = Error("htmlToPNG", "close", m)
        /\ browsers' \in {browsers, CloseBrowser(browsers, browser)}
        /\ pc' = "catch"
  /\ pending' = NoPending
  /\ UNCHANGED <<env, promptFile, disk, now, systemPrompt, urls, idx, scrapedData,
                 reportHTML, browser, launched, exitCode, reports>>

\* ------------------------------------------------------------ end of main
\* main returns; nothing is left to run and the process ends
Complete ==
  /\ pc = "complete"
  /\ exitCode' = ExitCodeFor(FALSE)
  /\ pc' = "exited"
  /\ UNCHANGED <<env, promptFile, disk, now, systemPrompt, urls, idx, scrapedData,
                 reportHTML, browser, pending, browsers, launched, thrown, reports>>

\* catch (error) { process.exit(1) }
Catch ==
  /\ pc = "catch"
  /\ exitCode' = ExitCodeFor(TRUE)
  /\ pc' = "exited"
  /\ UNCHANGED <<env, promptFile, disk, now, systemPrompt, urls, idx, scrapedData,
                 reportHTML, browser, pending, browsers, launched, thrown, reports>>

Next ==
  \/ LoadSystemPrompt \/ LoadTargetURLs
  \/ ScrapeLaunch \/ ScrapeNewContext \/ ScrapeNewPage
  \/ ScrapeGoto \/ ScrapeWait \/ ScrapeEvaluate \/ ScrapeFinally \/ Push
  \/ Generate \/ WriteHTML
  \/ RenderLaunch \/ RenderNewContext \/ RenderNewPage
  \/ RenderSetContent \/ RenderWait \/ RenderScreenshot \/ RenderFinally
  \/ Complete \/ Catch

Spec == Init /\ [][Next]_vars

\* ------------------------------------------------ target resolution alone
LineSet ==
  { <<HeaderTok>>, <<HeaderTok, " ">>, <<>>, <<"t">>,
    <<"-", " ", "x">>, <<"-", " ", "y", " ">>, <<"-", "x">> }

RECURSIVE JoinLines(_)
JoinLines(ls) ==
  IF ls = <<>> THEN <<>>
  ELSE IF Len(ls) = 1 THEN Head(ls)
  ELSE Head(ls) \o <<NL>> \o JoinLines(Tail(ls))

\* the texts of up to MaxLines lines, the last line with or without its newline
Templates ==
  { JoinLines(ls) \o end :
      ls \in UNION { [1..n -> LineSet] : n \in 0..MaxLines }, end \in {<<>>, <<NL>>} }

EnvStrings == UNION { [1..n -> {"a", ",", " "}] : n \in 0..MaxEnvLen }

InitConfig ==
  /\ env \in {EnvUnset} \cup {EnvValue(e) : e \in EnvStrings}
  /\ promptFile \in {Unreadable} \cup {Readable(t) : t \in Templates}
  /\ disk = [html |-> NoFile, png |-> NoFile]
  /\ Locals

NextConfig == LoadSystemPrompt \/ LoadTargetURLs

SpecConfig == InitConfig /\ [][NextConfig]_vars

\* the lines of a text; the last one is what follows the last newline
FileLines(text) == Split(text, NL)

\* a line that ends with the header, white space aside
IsHeaderLine(l) == TrimEnd(l) # <<>> /\ TrimEnd(l)[Len(TrimEnd(l))] = HeaderTok

\* a line that begins with the bullet marker
IsBulletLine(l) == Len(l) >= 2 /\ l[1] = "-" /\ l[2] = " "

IsBlankLine(l) == \A n \in 1..Len(l) : IsSpace(l[n])

\* the bullet lines from line j on, as far as they go
RECURSIVE BulletRun(_, _)
BulletRun(lines, j) ==
  IF j <= Len(lines) /\ IsBulletLine(lines[j])
  THEN <<Trim(SubSeq(lines[j], 3, Len(lines[j])))>> \o BulletRun(lines, j + 1)
  ELSE <<>>

\* line j is the first line after header line i that is not blank
FirstAfter(lines, i, j) ==
  /\ i < j /\ j <= Len(lines)
  /\ \A m \in (i + 1)..(j - 1) : IsBlankLine(lines[m])

\* header line i opens a marker section whose bullets start at line j
SectionAt(lines, i, j) ==
  /\ i \in 1..Len(lines) /\ IsHeaderLine(lines[i])
  /\ FirstAfter(lines, i, j) /\ IsBulletLine(lines[j])

HasSection(lines) == \E i, j \in 1..Len(lines) : SectionAt(lines, i, j)

\* the bullet entries of the first marker section that has any
SectionEntries(lines) ==
  LET i == CHOOSE i \in 1..Len(lines) :
             /\ \E j \in 1..Len(lines) : SectionAt(lines, i, j)
             /\ \A m \in 1..(i - 1) : \A j \in 1..Len(lines) : ~SectionAt(lines, m, j)
      j == CHOOSE j \in 1..Len(lines) : SectionAt(lines, i, j)
  IN BulletRun(lines, j)

\* loadTargetURLs has returned to main
Resolved == pc = "loop" /\ idx = 1 /\ scrapedData = <<>>

\* C5: target resolution follows the fallback chain: a TARGET_URLS list of
\* the environment wins whatever the template holds; otherwise the bullet
\* entries of the template's marker section, when it has at least one bullet
\* line; otherwise, also for a marker section without bullet lines, the
\* single built-in default
C5_FallbackChain ==
  Resolved =>
    urls = IF EnvTruthy(env) THEN EnvEntries(env.value)
           ELSE IF HasSection(FileLines(promptFile.text))
                THEN SectionEntries(FileLines(promptFile.text))
                ELSE <<DefaultURL>>

\* C6: without an environment override, a header immediately followed by a
\* run of bullet lines resolves to exactly the trimmed entries of that run,
\* in file order, whether or not the last bullet line ends with a newline
C6_BulletEntriesExact ==
  LET lines == FileLines(promptFile.text) IN
  (Resolved /\ ~EnvTruthy(env)) =>
    \A i \in 1..Len(lines) :
      (/\ IsHeaderLine(lines[i])
       /\ \A m \in 1..(i - 1) : ~IsHeaderLine(lines[m])
       /\ i < Len(lines) /\ IsBulletLine(lines[i + 1]))
      => urls = BulletRun(lines, i + 1)

\* ------------------------------------------------- generateReport alone
SampleSnapshots ==
  { PageData(<<"a">>, page) : page \in Pages }
  \cup { ErrorSnapshot(<<"a">>, m) : m \in ErrMsgs }

SnapshotSeqs == UNION { [1..n -> SampleSnapshots] : n \in 0..MaxData }

InitReport ==
  /\ env = EnvUnset
  /\ promptFile = Readable(<<"t", NL>>)
  /\ disk = [html |-> NoFile, png |-> NoFile]
  /\ now = 0
  /\ pc = "loop"
  /\ systemPrompt = promptFile.text
  /\ scrapedData \in SnapshotSeqs
  /\ urls = [n \in 1..Len(scrapedData) |-> <<"a">>]
  /\ idx = Len(scrapedData) + 1
  /\ reportHTML = JSNull
  /\ browser = 0
  /\ pending = NoPending
  /\ browsers = {}
  /\ launched = 0
  /\ thrown = NoError
  /\ exitCode = Running
  /\ reports = <<>>

\* generateReport(scrapedData, systemPrompt) called once more on the same
\* Snapshots while the API call ends in some outcome; the returned value is
\* kept
CallGenerateReport ==
  /\ Len(reports) < MaxCalls
  /\ \E outcome \in ApiOutcomes : \E t \in now..MaxClock :
       /\ now' = t
       /\ reports' = Append(reports, [data |-> scrapedData, outcome |-> outcome,
                                      doc |-> GenerateReport(scrapedData, outcome, t)])
  /\ UNCHANGED <<env, promptFile, disk, pc, systemPrompt, urls, idx, scrapedData,
                 reportHTML, browser, pending, browsers, launched, thrown, exitCode>>

NextReport == CallGenerateReport

SpecReport == InitReport /\ [][NextReport]_vars

Contains(s, sub) ==
  \E n \in 1..(Len(s) - Len(sub) + 1) : SubSeq(s, n, n + Len(sub) - 1) = sub

ApiFailed(outcome) == outcome.kind \in {"rejected", "noChoices"}

\* the document without its timestamp region: what stands between the
\* heading text and the end of the heading
MaskTimestamp(doc) ==
  LET from == CHOOSE n \in 1..Len(doc) :
                doc[n] = "Scraping Report - " /\ \A m \in 1..(n - 1) : doc[m] # doc[n]
      to == CHOOSE n \in (from + 1)..Len(doc) :
              doc[n] = "</h1>" /\ \A m \in (from + 1)..(n - 1) : doc[m] # doc[n]
  IN SubSeq(doc, 1, from) \o SubSeq(doc, to, Len(doc))

InScrape == pc \in {"s_context", "s_page", "s_goto", "s_wait", "s_evaluate", "s_finally"}
InRender == pc \in {"h_context", "h_page", "h_setContent", "h_wait", "h_screenshot",
                    "h_finally"}

\* C1: scrapeURL never raises: no failure of any of its steps reaches the
\* caller as an exception
C1_ScrapeNeverRaises == thrown.fn # "scrapeURL"

\* the Target a Snapshot was fetched from: its url, less the redirect
SnapshotTarget(snap) ==
  IF snap.url # <<>> /\ Head(snap.url) = "redirect:" THEN Tail(snap.url) ELSE snap.url

\* the loop is over and scrapedData goes to generateReport
Handed == (pc = "loop" /\ idx > Len(urls)) \/ pc = "write"

\* C2: the Snapshots handed to generateReport are as many as the Targets and
\* the i-th Snapshot comes from fetching the i-th Target
C2_SnapshotsMatchTargets ==
  Handed =>
    /\ Len(scrapedData) = Len(urls)
    /\ \A n \in 1..Len(urls) : SnapshotTarget(scrapedData[n]) = urls[n]

\* two different Targets, the first fetch failed, the second succeeded
C2_Witness ==
  /\ Handed /\ Len(urls) = 2 /\ urls[1] # urls[2]
  /\ IsErrorSnapshot(scrapedData[1]) /\ ~IsErrorSnapshot(scrapedData[2])

\* C3: whatever the API call does, generateReport returns a document and the
\* run does not end with a fatal error for what the API call did
C3_ReportAlwaysExists ==
  /\ pc = "write" => reportHTML.type = "string"
  /\ thrown.step # "ERR_INVALID_ARG_TYPE"

\* C4: once scrapeURL or htmlToPNG has returned or raised, the browser it
\* launched is closed
C4_BrowserClosedOnExit ==
  (~InScrape /\ ~InRender) => browser \notin browsers

\* C7: report.html holds the markup handed to htmlToPNG from the moment
\* htmlToPNG starts, also in a run that ends on a rendering failure
C7_ReportPersistedBeforeRender ==
  (pc = "render" \/ InRender \/ thrown.fn = "htmlToPNG") =>
    /\ reportHTML.type = "string"
    /\ disk.html = File(reportHTML.text)

\* the run ended on a failure of the screenshot, over a stale report.png
C7_Witness ==
  /\ pc = "exited" /\ thrown.fn = "htmlToPNG" /\ thrown.step = "try"
  /\ disk.png = File(<<"stale">>)
  /\ disk.html = File(reportHTML.text)

\* C8: the exit code is 0 exactly when no stage raised, and then the prompt
\* was loaded, every Target has its Snapshot, report.html and report.png are
\* written; a missing prompt file and a failure of htmlToPNG end the run with
\* a non-zero code; after the fatal error nothing but the exit happens
C8_ExitCode ==
  /\ [](pc = "exited" =>
          /\ exitCode = 0 <=> thrown = NoError
          /\ exitCode = 0 =>
               /\ promptFile.readable /\ systemPrompt = promptFile.text
               /\ urls # <<>> /\ Len(scrapedData) = Len(urls)
               /\ disk.html = File(reportHTML.text)
               /\ disk.png = File(<<"PNG of">> \o reportHTML.text)
          /\ ~promptFile.readable => exitCode # 0
          /\ thrown.fn = "htmlToPNG" => exitCode # 0)
  /\ [][thrown # NoError =>
          /\ pc' = "exited" /\ exitCode' # 0
          /\ UNCHANGED <<disk, scrapedData, reportHTML, launched, browsers, thrown>>]_vars

\* a run that ended with code 0 although one of its two fetches failed
C8_Witness ==
  /\ pc = "exited" /\ exitCode = 0
  /\ Len(scrapedData) = 2 /\ IsErrorSnapshot(scrapedData[2])

\* C10: never more than one browser is open, and while htmlToPNG runs no
\* browser of a fetch is open
C10_AtMostOneBrowser ==
  /\ Cardinality(browsers) <= 1
  /\ InRender => browsers \subseteq {browser}

\* the browser of htmlToPNG is open after two fetches opened and closed theirs
C10_Witness == InRender /\ launched = 3 /\ browsers = {3}

====
